---------------------------- MODULE Spec2Model ----------------------------
(* Model of projects/list_files_in_excel/files_2_excel.py: the file        *)
(* scanner (iter_files), the metadata helpers (friendly_size,             *)
(* get_file_type) and the report writer (df_files_2_excel).               *)
(*                                                                         *)
(* Text is a sequence of one-character strings, so that startswith,       *)
(* lstrip, suffix and formatting are computed and not assumed.            *)
(* A byte count is a little-endian sequence of base-1024 digits           *)
(* (n = limbs[1] + 1024*limbs[2] + ...), which keeps sizes above 1024 GB  *)
(* inside the integers of the model checker; the float the code holds     *)
(* after k divisions is the exact rational n / 1024^k (exact in binary    *)
(* floating point for every st_size below 2^53).                          *)
EXTENDS Integers, Sequences, FiniteSets, TLC

VARIABLES
    pc,          \* position of the program
    arg,         \* argument of the pure function under call
    ret,         \* its result
    fs,          \* regular files currently on disk (sequence of parts each)
    exclude_dir, \* iter_files: exclude_dir
    visited,     \* entries rglob has produced so far
    f,           \* iter_files: the entry being processed
    records,     \* rows yielded so far (the DataFrame after "done")
    vanished,    \* files removed from disk while the scan runs
    df,          \* df_files_2_excel: the DataFrame
    wsList,      \* worksheet "List of Files"
    ws,          \* worksheet "Summary"
    tables,      \* tables added to the worksheets: name -> ref
    charts,      \* pie charts added to the Summary sheet
    n_row,       \* _excel_write_summary: n_row
    now          \* datetime.now() of _write_modif_times, with its cutoffs

vars == <<pc, arg, ret, fs, exclude_dir, visited, f, records, vanished,
          df, wsList, ws, tables, charts, n_row, now>>

pureVars == <<arg, ret>>
scanVars == <<fs, exclude_dir, visited, f, records, vanished>>
reportVars == <<df, wsList, ws, tables, charts, n_row, now>>

Range(s) == {s[i] : i \in DOMAIN s}

None == "None"

MaxOf(S) == IF S = {} THEN 0 ELSE CHOOSE x \in S : \A y \in S : y <= x

-----------------------------------------------------------------------------
(* Text helpers (Python str methods used by the code).                     *)

\* str.lstrip(".")
RECURSIVE LStripDots(_)
LStripDots(s) ==
    IF s # <<>> /\ Head(s) = "." THEN LStripDots(Tail(s)) ELSE s

\* str.startswith(".")
StartsWithDot(s) == s # <<>> /\ Head(s) = "."

\* str.rfind("."), 0-based, -1 when absent
RECURSIVE RFindDot(_)
RFindDot(s) ==
    IF s = <<>> THEN -1
    ELSE IF s[Len(s)] = "." THEN Len(s) - 1
    ELSE RFindDot(SubSeq(s, 1, Len(s) - 1))

\* PurePath.suffix: name[i:] when 0 < i < len(name) - 1, i = name.rfind("."), else ""
Suffix(name) ==
    LET i == RFindDot(name)
    IN  IF 0 < i /\ i < Len(name) - 1 THEN SubSeq(name, i + 1, Len(name)) ELSE <<>>

Digit == <<"0", "1", "2", "3", "4", "5", "6", "7", "8", "9">>

\* decimal digits of a natural number
RECURSIVE IntStr(_)
IntStr(n) ==
    IF n < 10 THEN <<Digit[n + 1]>> ELSE IntStr(n \div 10) \o <<Digit[(n % 10) + 1]>>

-----------------------------------------------------------------------------
(* friendly_size                                                           *)

K == 1024

\* digit i of a byte count, 0 beyond its length
Limb(limbs, i) == IF i \in DOMAIN limbs THEN limbs[i] ELSE 0

\* `size > 1024` for size = limbs / 1024^k
Gt1024_Geq(limbs, k) ==
    \/ \E i \in (k + 3)..Len(limbs) : limbs[i] > 0
    \/ Limb(limbs, k + 2) >= 1

Gt1024(limbs, k) ==
    \/ \E i \in (k + 3)..Len(limbs) : limbs[i] > 0
    \/ Limb(limbs, k + 2) > 1
    \/ Limb(limbs, k + 2) = 1 /\ \E i \in 1..(k + 1) : Limb(limbs, i) > 0

\* integer part of limbs / 1024^k
RECURSIVE IntPart(_, _)
IntPart(limbs, k) ==
    IF k >= Len(limbs) THEN 0
    ELSE limbs[k + 1] + K * IntPart(limbs, k + 1)

\* 100 * (fractional part of limbs / 1024^k), as <<floor, remainder digits>>:
\* schoolbook multiplication of the k low digits by 100, carry upwards
RECURSIVE Times100(_, _, _, _)
Times100(limbs, k, i, acc) ==
    IF i > k THEN acc
    ELSE LET t == 100 * Limb(limbs, i) + acc.carry
         IN  Times100(limbs, k, i + 1,
                      [carry |-> t \div K, rem |-> Append(acc.rem, t % K)])

\* f"{size:0.2f}": correctly rounded to two decimals, ties to even
Format2f(limbs, k) ==
    LET m == Times100(limbs, k, 1, [carry |-> 0, rem |-> <<>>])
        q == m.carry
        top == IF k = 0 THEN 0 ELSE m.rem[k]
        low == \E i \in 1..(k - 1) : m.rem[i] > 0
        up == \/ top > K \div 2
              \/ top = K \div 2 /\ low
              \/ top = K \div 2 /\ ~low /\ q % 2 = 1
        c == IF up THEN q + 1 ELSE q
        ip == IntPart(limbs, k) + (c \div 100)
        cc == c % 100
    IN  IntStr(ip) \o <<".", Digit[(cc \div 10) + 1], Digit[(cc % 10) + 1]>>

Letters == <<"K", "M", "G">>

\* the loop `for letter in "KMG"`: state <<divisions done, unit>>
RECURSIVE ForKMG(_, _, _)
ForKMG(limbs, j, st) ==
    IF j > Len(Letters) THEN st
    ELSE IF Gt1024(limbs, st.k)
         THEN ForKMG(limbs, j + 1, [k |-> st.k + 1, unit |-> <<Letters[j], "B">>])
         ELSE ForKMG(limbs, j + 1, st)

friendly_size(limbs) ==
    LET st == ForKMG(limbs, 1, [k |-> 0, unit |-> <<"B">>])
    IN  Format2f(limbs, st.k) \o <<" ">> \o st.unit

-----------------------------------------------------------------------------
(* get_file_type                                                           *)

\* the dict `types`, as <<key, label>> pairs
types ==
    {
       <<<<".", "h", "t", "m", "l">>, <<"H", "T", "M", "L">>>>,
       <<<<".", "h", "t", "m">>, <<"H", "T", "M", "L">>>>,
       <<<<".", "i", "p", "y", "n", "b">>, <<"J", "u", "p", "y", "t", "e", "r">>>>,
       <<<<".", "x", "l", "s", "x">>, <<"E", "x", "c", "e", "l">>>>,
       <<<<".", "x", "l", "s">>, <<"E", "x", "c", "e", "l">>>>,
       <<<<".", "d", "o", "c", "x">>, <<"M", "S", " ", "W", "o", "r", "d">>>>,
       <<<<".", "d", "o", "c">>, <<"M", "S", " ", "W", "o", "r", "d">>>>,
       <<<<".", "t", "x", "t">>, <<"T", "e", "x", "t">>>>,
       <<<<".", "p", "y">>, <<"P", "y", "t", "h", "o", "n">>>>,
       <<<<".", "c", "s", "v">>, <<"D", "a", "t", "a">>>>,
       <<<<".", "j", "s", "o", "n">>, <<"D", "a", "t", "a">>>>,
       <<<<".", "y", "a", "m", "l">>, <<"D", "a", "t", "a">>>>,
       <<<<".", "b", "a", "t">>, <<"B", "a", "t", "c", "h">>>>,
       <<<<".", "c", "m", "d">>, <<"B", "a", "t", "c", "h">>>>,
       <<<<".", "s", "h">>, <<"B", "a", "t", "c", "h">>>>
    }

\* dict.get(key, default)
DictGet(d, key, default) ==
    IF \E e \in d : e[1] = key
    THEN (CHOOSE e \in d : e[1] = key)[2]
    ELSE default

get_file_type(name) ==
    IF StartsWithDot(name)
    THEN LStripDots(name)
    ELSE DictGet(types, Suffix(name), LStripDots(Suffix(name)))

-----------------------------------------------------------------------------
(* iter_files / files_2_df                                                  *)

\* Path.parts of `root`
root == << <<"p", "r", "o", "j">> >>

\* PurePath.as_posix(): the parts joined by "/"
RECURSIVE AsPosix(_)
AsPosix(parts) ==
    IF Len(parts) = 1 THEN parts[1]
    ELSE AsPosix(SubSeq(parts, 1, Len(parts) - 1)) \o <<"/">> \o parts[Len(parts)]

\* directories below root implied by a set of files (paths relative to root)
DirsOf(files) ==
    UNION { { SubSeq(e, 1, n) : n \in 1..(Len(e) - 1) } : e \in files }

\* fnmatch of a name against "*.*": some character is a dot
MatchesStarDotStar(name) == "." \in Range(name)

\* the entries root.rglob("*.*") can still produce: files and directories
\* on disk, at any depth, whose name matches the pattern
RGlob(onDisk, everOnDisk) ==
    { e \in onDisk \cup DirsOf(everOnDisk) : MatchesStarDotStar(e[Len(e)]) }

\* any(d in f.parts for d in exclude_dir), limited to the parent directory
IsExcluded_ParentOnly(parts, excl) ==
    \E i \in DOMAIN excl : Len(parts) > 1 /\ excl[i] = parts[Len(parts) - 1]

\* any(d in f.parts for d in exclude_dir)
IsExcluded(parts, excl) ==
    \E i \in DOMAIN excl : excl[i] \in Range(parts)

\* st_size and st_mtime of a file: fixed by its path in this model
StSize(e) == <<512, Len(e)>>
StMTime(e) == Len(e)

\* the dict iter_files yields for entry e
FileRecord(e) ==
    LET name == e[Len(e)]
    IN  [ Name |-> name,
          Path |-> AsPosix(root \o e),
          Extension |-> IF Suffix(name) # <<>> THEN Suffix(name) ELSE name,
          Type |-> get_file_type(name),
          Size |-> friendly_size(StSize(e)),
          SizeB |-> StSize(e),
          LastModif |-> StMTime(e) ]

-----------------------------------------------------------------------------
(* openpyxl worksheet: the cells that exist, keyed <<row, column>>, and    *)
(* _current_row, the row after which append() writes.                      *)
(* A cell value is tagged: [t |-> "num" | "str" | "date" | "none" | ...].  *)

Num(n) == [t |-> "num", v |-> n]
Str(x) == [t |-> "str", v |-> x]
\* a string taken from the DataFrame, known by its index among the inputs
StrOf(k) == [t |-> "str", id |-> k]
Date(d) == [t |-> "date", v |-> d]
NoValue == [t |-> "none"]

\* dict update: the entries of `new`, then those of `old` under other keys
Merge(new, old) == new @@ old

NewSheet == [current_row |-> 0, cells |-> <<>>, styles |-> {}]

\* Worksheet.append(row): the row lands below _current_row, an empty row too
WsAppend(w, row) ==
    LET r == w.current_row + 1
    IN  [w EXCEPT !.current_row = r,
                  !.cells = Merge([x \in {<<r, j>> : j \in DOMAIN row} |-> row[x[2]]], @)]

\* Worksheet.cell(row, column): a cell that does not exist is created, and
\* _add_cell raises _current_row to its row
WsCell(w, r, c) ==
    IF <<r, c>> \in DOMAIN w.cells THEN w
    ELSE [w EXCEPT !.current_row = IF r > @ THEN r ELSE @,
                   !.cells = Merge([x \in {<<r, c>>} |-> NoValue], @)]

\* ws.cell(row, column).style = style
WsSetStyle(w, r, c, style) ==
    [WsCell(w, r, c) EXCEPT !.styles = @ \cup {<<r, c, style>>}]

\* Worksheet.max_row
WsMaxRow(w) == IF DOMAIN w.cells = {} THEN 1 ELSE MaxOf({x[1] : x \in DOMAIN w.cells})

\* Worksheet.delete_rows(idx): the rows below move up by one
WsDeleteRows(w, idx) ==
    LET kept == {x \in DOMAIN w.cells : x[1] # idx}
        to(x) == IF x[1] > idx THEN <<x[1] - 1, x[2]>> ELSE x
        from(y) == IF y[1] >= idx THEN <<y[1] + 1, y[2]>> ELSE y
        moved == [y \in {to(x) : x \in kept} |-> w.cells[from(y)]]
        w2 == [w EXCEPT !.cells = moved]
    IN  [w2 EXCEPT !.current_row = IF DOMAIN moved = {} THEN 0 ELSE WsMaxRow(w2)]

\* value of a cell, NoValue where no cell exists
CellAt(w, r, c) == IF <<r, c>> \in DOMAIN w.cells THEN w.cells[<<r, c>>] ELSE NoValue

\* a cell range "A1:G9" and chart Reference(min_col, min_row, max_row)
Ref(c1, r1, c2, r2) == [min_col |-> c1, min_row |-> r1, max_col |-> c2, max_row |-> r2]

-----------------------------------------------------------------------------
(* pandas / openpyxl helpers of the report                                  *)

KEY_LAST_MODIF == "Last Modif Time"
KEY_SIZE_B == "Size (b)"
TABLE_LIST_FILES == "ListFiles"

\* df.columns of the DataFrame files_2_df builds
ListColumns == <<"Name", "Path", "Extension", "Type", "Size", KEY_SIZE_B, KEY_LAST_MODIF>>

\* one DataFrame row as worksheet values, in column order
ListRow(d) ==
    <<StrOf(d.Name), StrOf(d.Path), StrOf(d.Extension), StrOf(d.Type), StrOf(d.Size),
      Num(d.SizeB), Date(d.LastModif)>>

RECURSIVE WsAppendAll(_, _)
WsAppendAll(w, rows) ==
    IF rows = <<>> THEN w ELSE WsAppendAll(WsAppend(w, Head(rows)), Tail(rows))

\* an ascending sequence of the elements of a set of integers
RECURSIVE SortedSeq(_)
SortedSeq(S) ==
    IF S = {} THEN <<>>
    ELSE LET m == CHOOSE x \in S : \A y \in S : x <= y
         IN  <<m>> \o SortedSeq(S \ {m})

RECURSIVE SumSeq(_)
SumSeq(q) == IF q = <<>> THEN 0 ELSE Head(q) + SumSeq(Tail(q))

\* df.groupby("Type")[KEY_SIZE_B].agg([min, max, len, sum]): one row per
\* type, in the order of the sorted group keys
GroupByType(d) ==
    LET keys == SortedSeq({d[i].Type : i \in DOMAIN d})
        sizes(t) == LET Of(r) == r.Type = t
                        rows == SelectSeq(d, Of)
                    IN  [i \in DOMAIN rows |-> rows[i].SizeB]
    IN  [j \in DOMAIN keys |->
            LET z == sizes(keys[j])
            IN  [ Type |-> keys[j],
                  min |-> CHOOSE x \in Range(z) : \A y \in Range(z) : x <= y,
                  max |-> MaxOf(Range(z)),
                  len |-> Len(z),
                  sum |-> SumSeq(z) ]]

\* insertion keeping the rows in non-increasing order of column `by`, a row
\* going behind the rows that tie with it
RECURSIVE InsertDesc(_, _, _)
InsertDesc(sorted, x, by) ==
    IF sorted = <<>> THEN <<x>>
    ELSE IF Head(sorted)[by] >= x[by]
         THEN <<Head(sorted)>> \o InsertDesc(Tail(sorted), x, by)
         ELSE <<x>> \o sorted

\* a slip: ascending order
RECURSIVE SortValuesDesc_Ascending(_, _)
SortValuesDesc_Ascending(q, by) ==
    IF q = <<>> THEN <<>>
    ELSE LET rest == SortValuesDesc_Ascending(SubSeq(q, 1, Len(q) - 1), by)
             x == q[Len(q)]
             Before(r) == r[by] <= x[by]
             After(r) == r[by] > x[by]
         IN  SelectSeq(rest, Before) \o <<x>> \o SelectSeq(rest, After)

\* df.sort_values(by=by, ascending=False): fewer than 16 rows are sorted by
\* insertion, ties staying in group order
RECURSIVE SortValuesDesc(_, _)
SortValuesDesc(q, by) ==
    IF q = <<>> THEN <<>>
    ELSE InsertDesc(SortValuesDesc(SubSeq(q, 1, Len(q) - 1), by), q[Len(q)], by)

TopN == 10

\* [:10]
Head10(q) == SubSeq(q, 1, IF Len(q) < TopN THEN Len(q) ELSE TopN)

\* dataframe_to_rows(df_top, index=False, header=True) after reset_index()
TopRows(df_top) ==
    << <<Str("Type"), Str("min"), Str("max"), Str("len"), Str("sum")>> >> \o
    [i \in DOMAIN df_top |->
        <<StrOf(df_top[i].Type), Num(df_top[i].min), Num(df_top[i].max),
          Num(df_top[i].len), Num(df_top[i].sum)>>]

\* by.capitalize()
Capitalize(by) == IF by = "sum" THEN "Sum" ELSE "Len"

-----------------------------------------------------------------------------
(* _excel_write_list_files, _write_top_ten, _write_modif_times              *)

\* _excel_write_list_files(ws, df): the sheet and the ListFiles table
ExcelWriteListFiles(w, d) ==
    LET rows == <<[j \in DOMAIN ListColumns |-> Str(ListColumns[j])]>> \o
                [i \in DOMAIN d |-> ListRow(d[i])]
        nrow == Len(rows)
        w1 == WsAppendAll(w, rows)
        w2 == WsDeleteRows(w1, 2)
    IN  [ ws |-> w2,
          table |-> [name |-> TABLE_LIST_FILES, sheet |-> "List of Files",
                     ref |-> Ref(1, 1, Len(ListColumns), nrow)] ]

\* a slip: the range starts at the first data row
TopTableRef_NoHeader(init_row, nrow) == Ref(2, init_row + 2, 6, nrow)

\* ref=f"B{init_row + 1}:F{n_row}"
TopTableRef(init_row, nrow) == Ref(2, init_row + 1, 6, nrow)

\* _write_top_ten(ws, df_ext, by, init_row, col_nb, descr)
WriteTopTen(w, df_ext, by, init_row, col_nb, descr) ==
    LET df_top == Head10(SortValuesDesc(df_ext, by))
        w1 == WsAppend(w, <<Str("Top 10 Types by " \o descr)>>)
        w2 == WsSetStyle(w1, init_row, 1, "Headline 1")
        rows == TopRows(df_top)
        nrow == init_row + Len(rows)
        w3 == WsAppendAll(w2, [i \in DOMAIN rows |-> <<NoValue>> \o rows[i]])
    IN  [ ws |-> w3,
          table |-> [name |-> "TopType" \o Capitalize(by), sheet |-> "Summary",
                     ref |-> TopTableRef(init_row, nrow)],
          chart |-> [title |-> "Top 10 Types by " \o descr,
                     labels |-> Ref(2, init_row + 2, 2, nrow),
                     data |-> Ref(col_nb + 1, init_row + 2, col_nb + 1, nrow),
                     anchor |-> <<"H", init_row>>] ]

\* modif_times: the labels; the cutoffs now - delta are held by `now`
ModifLabels == <<"2 hours", "3 days", "2 weeks", "6 months", "1 year", "3 years">>

\* a slip: the earlier buckets are not subtracted (the SUM stops at the header)
BucketFormula_NoSum(n, first, last) ==
    [ t |-> "formula", f |-> "COUNTIF>=-SUM",
      table |-> TABLE_LIST_FILES, column |-> KEY_LAST_MODIF,
      crit |-> <<n, 2>>, sum |-> Ref(3, first, 3, first) ]

\* '=COUNTIF(ListFiles[Last Modif Time],">="&B{n})-SUM(C${first}:C{last})'
BucketFormula(n, first, last) ==
    [ t |-> "formula", f |-> "COUNTIF>=-SUM",
      table |-> TABLE_LIST_FILES, column |-> KEY_LAST_MODIF,
      crit |-> <<n, 2>>, sum |-> Ref(3, first, 3, last) ]

\* '=COUNTIF(ListFiles[Last Modif Time],"<"&B{n})'
BeyondFormula(n) ==
    [ t |-> "formula", f |-> "COUNTIF<",
      table |-> TABLE_LIST_FILES, column |-> KEY_LAST_MODIF,
      crit |-> <<n, 2>> ]

\* the loop `for label, delta in modif_times` from entry j on
RECURSIVE ModifRows(_, _, _, _, _)
ModifRows(w, init_row, nrow, j, cutoffs) ==
    IF j > Len(ModifLabels) THEN [ws |-> w, n_row |-> nrow]
    ELSE LET n == nrow + 1
             w1 == WsAppend(w, <<Str(ModifLabels[j]), Date(cutoffs[j]),
                                 BucketFormula(n, init_row + 1, n - 1)>>)
         IN  ModifRows(WsCell(w1, n, 2), init_row, n, j + 1, cutoffs)

\* _write_modif_times(ws, init_row)
WriteModifTimes(w, init_row, cutoffs) ==
    LET w1 == WsAppend(w, <<Str("Nb of files by modification time")>>)
        w2 == WsSetStyle(w1, init_row, 1, "Headline 1")
        nrow0 == init_row + 1
        end_row == nrow0 + Len(ModifLabels) + 1
        w3 == WsAppend(w2, <<Str("Time period"), Str("Max date"), Str("Nb of files")>>)
        lp == ModifRows(w3, init_row, nrow0, 1, cutoffs)
        w4 == WsAppend(lp.ws, <<Str("Above 3 years"), Str("-"), BeyondFormula(lp.n_row)>>)
        nrow == lp.n_row + 1
    IN  [ ws |-> w4,
          table |-> [name |-> "ModifStat", sheet |-> "Summary",
                     ref |-> Ref(1, nrow0, 3, end_row)],
          chart |-> [title |-> "Number of files by modification time",
                     labels |-> Ref(1, init_row + 2, 1, nrow),
                     data |-> Ref(3, init_row + 2, 3, nrow),
                     anchor |-> <<"H", init_row>>] ]

-----------------------------------------------------------------------------
(* What the spreadsheet application computes for the formulas written.     *)

TableNamed(name) == CHOOSE tb \in Range(tables) : tb.name = name

\* the cells of column `column` of table `name`, below its header row
TableColumn(name, column) ==
    LET tb == TableNamed(name)
        sheet == IF tb.sheet = "Summary" THEN ws ELSE wsList
        c == CHOOSE j \in tb.ref.min_col..tb.ref.max_col :
                 CellAt(sheet, tb.ref.min_row, j) = Str(column)
    IN  [i \in 1..(tb.ref.max_row - tb.ref.min_row) |->
            CellAt(sheet, tb.ref.min_row + i, c)]

IsNumber(cell) == cell.t \in {"num", "date"}

\* COUNTIF(range, ">="&crit) / COUNTIF(range, "<"&crit): empty and text
\* cells are never counted
CountIfGe(cells, crit) ==
    Cardinality({i \in DOMAIN cells : IsNumber(cells[i]) /\ cells[i].v >= crit.v})

CountIfLt(cells, crit) ==
    Cardinality({i \in DOMAIN cells : IsNumber(cells[i]) /\ cells[i].v < crit.v})

\* the value shown in cell <<r, c>> of the Summary sheet, `above` holding
\* the values shown in rows first..(r - 1) of that column; SUM skips text
CellValue(r, c, first, above) ==
    LET cell == CellAt(ws, r, c)
        shown(i) == IF i - first + 1 \in DOMAIN above THEN above[i - first + 1] ELSE 0
    IN  IF IsNumber(cell) THEN cell.v
        ELSE IF cell.t # "formula" THEN 0
        ELSE IF cell.f = "COUNTIF<"
             THEN CountIfLt(TableColumn(cell.table, cell.column),
                            CellAt(ws, cell.crit[1], cell.crit[2]))
             ELSE CountIfGe(TableColumn(cell.table, cell.column),
                            CellAt(ws, cell.crit[1], cell.crit[2]))
                  - SumSeq([i \in 1..(cell.sum.max_row - cell.sum.min_row + 1) |->
                               shown(cell.sum.min_row + i - 1)])

\* the values shown in rows first..last of column c, computed top down (the
\* formulas written refer to rows above their own)
RECURSIVE ColumnValues(_, _, _, _)
ColumnValues(c, first, last, above) ==
    IF first + Len(above) > last THEN above
    ELSE ColumnValues(c, first, last,
                      Append(above, CellValue(first + Len(above), c, first, above)))

-----------------------------------------------------------------------------
(* Values of the variables a specification does not use.                   *)

PureOff == arg = None /\ ret = None

ScanOff ==
    /\ fs = {} /\ exclude_dir = <<>> /\ visited = {} /\ f = None
    /\ records = <<>> /\ vanished = {}

ReportOff ==
    /\ df = <<>> /\ wsList = None /\ ws = None /\ tables = <<>>
    /\ charts = <<>> /\ n_row = 0 /\ now = None

-----------------------------------------------------------------------------
(* SpecSize: friendly_size applied to a byte count.                        *)

MaxLimbs == 5
LimbVals == {0, 1, 2, 128, 512, 1023}
SizeInputs == [1..MaxLimbs -> LimbVals]

InitSize ==
    /\ pc = "call_friendly_size"
    /\ arg \in SizeInputs
    /\ ret = None
    /\ ScanOff /\ ReportOff

CallFriendlySize ==
    /\ pc = "call_friendly_size"
    /\ ret' = friendly_size(arg)
    /\ pc' = "ret_friendly_size"
    /\ UNCHANGED <<arg, scanVars, reportVars>>

NextSize == CallFriendlySize

SpecSize == InitSize /\ [][NextSize]_vars

-----------------------------------------------------------------------------
(* SpecType: get_file_type applied to a file name.                         *)

MaxNameLen == 4
NameChars == {".", "p", "y", "P", "Y", "z"}
NamedFiles ==
    { <<".", "g", "i", "t", "i", "g", "n", "o", "r", "e">>,
      <<"r", "e", "p", "o", "r", "t", ".", "x", "l", "s", "x">>,
      <<"R", "E", "P", "O", "R", "T", ".", "X", "L", "S", "X">>,
      <<"n", "o", "t", "e", "s", ".", "x", "y", "z">>,
      <<"M", "a", "k", "e", "f", "i", "l", "e">> }

\* a file name is not empty and is neither "." nor ".."
TypeInputs ==
    NamedFiles \cup
    { n \in UNION { [1..l -> NameChars] : l \in 1..MaxNameLen } :
        n # <<".">> /\ n # <<".", ".">> }

InitType ==
    /\ pc = "call_get_file_type"
    /\ arg \in TypeInputs
    /\ ret = None
    /\ ScanOff /\ ReportOff

CallGetFileType ==
    /\ pc = "call_get_file_type"
    /\ ret' = get_file_type(arg)
    /\ pc' = "ret_get_file_type"
    /\ UNCHANGED <<arg, scanVars, reportVars>>

NextType == CallGetFileType

SpecType == InitType /\ [][NextType]_vars

-----------------------------------------------------------------------------
(* SpecReport: df_files_2_excel(xlsx, df, root) for a DataFrame of N >= 1   *)
(* rows. Times are hours; a type is a number; the columns the report does  *)
(* not read (Name, Path, Extension, Size) hold the row number.             *)

MaxTypes == 12
MaxExtra == 2

\* the clock at _write_modif_times
T0 == 30000

\* now - relativedelta(...) for the six entries of modif_times; the length
\* of 6 months, 1 year and 3 years depends on the calendar
Cutoffs ==
    { <<T0 - 2, T0 - 72, T0 - 336, T0 - 4344, T0 - 8760, T0 - 26280>>,
      <<T0 - 2, T0 - 72, T0 - 336, T0 - 4416, T0 - 8784, T0 - 26304>> }

\* modification times of the files: around and on the cutoffs
MTimes ==
    <<T0 + 1, T0 - 2, T0 - 3, T0 - 72, T0 - 4344, T0 - 8784, T0 - 26280, T0 - 26281>>

SizePatterns == {"asc", "desc", "flat", "mixed"}

SizeOfRow(p, i) ==
    CASE p = "asc" -> i
      [] p = "desc" -> 100 - i
      [] p = "flat" -> 5
      [] OTHER -> (7 * i) % 5

\* a DataFrame with `nt` types, one row each, then the rows of `extra`
\* (each of the first or of the last type)
Frame(nt, extra, p, off) ==
    [i \in 1..(nt + Len(extra)) |->
        [ Name |-> i, Path |-> i, Extension |-> i, Size |-> i,
          Type |-> IF i <= nt THEN i ELSE IF extra[i - nt] = "first" THEN 1 ELSE nt,
          SizeB |-> SizeOfRow(p, i),
          LastModif |-> MTimes[((i + off) % Len(MTimes)) + 1] ]]

Frames ==
    { Frame(nt, extra, p, off) :
        nt \in 1..MaxTypes,
        extra \in UNION { [1..l -> {"first", "last"}] : l \in 0..MaxExtra },
        p \in SizePatterns,
        off \in 0..(Len(MTimes) - 1) }

InitReport ==
    /\ pc = "write_list_files"
    /\ df \in Frames
    /\ wsList = NewSheet
    /\ ws = NewSheet
    /\ tables = <<>>
    /\ charts = <<>>
    /\ n_row = 0
    /\ now = None
    /\ PureOff /\ ScanOff

\* _excel_write_list_files(ws, df)
WriteListFiles ==
    /\ pc = "write_list_files"
    /\ LET res == ExcelWriteListFiles(wsList, df)
       IN  /\ wsList' = res.ws
           /\ tables' = Append(tables, res.table)
    /\ pc' = "summary"
    /\ UNCHANGED <<df, ws, charts, n_row, now, pureVars, scanVars>>

\* _excel_write_summary up to `n_row = 4`
SummaryHead ==
    /\ pc = "summary"
    /\ LET w1 == WsAppend(ws, <<Str("Root Directory:"), Str(AsPosix(root))>>)
           w2 == WsAppend(w1, <<Str("Generation Time:"), Date(T0)>>)
       IN  ws' = WsAppend(WsCell(w2, 2, 2), <<>>)
    /\ n_row' = 4
    /\ pc' = "top_sum"
    /\ UNCHANGED <<df, wsList, tables, charts, now, pureVars, scanVars>>

\* _write_top_ten(...); n_row += 12; three times ws.append([]), n_row += 1
TopTenSection(by, col_nb, descr, next) ==
    /\ LET res == WriteTopTen(ws, GroupByType(df), by, n_row, col_nb, descr)
       IN  /\ ws' = WsAppendAll(res.ws, << <<>>, <<>>, <<>> >>)
           /\ tables' = Append(tables, res.table)
           /\ charts' = Append(charts, res.chart)
    /\ n_row' = n_row + 12 + 3
    /\ pc' = next
    /\ UNCHANGED <<df, wsList, now, pureVars, scanVars>>

TopTenSum ==
    /\ pc = "top_sum"
    /\ TopTenSection("sum", 5, "Total Size", "top_len")

TopTenLen ==
    /\ pc = "top_len"
    /\ TopTenSection("len", 4, "Nb of files", "modif_times")

\* _write_modif_times(ws, n_row)
ModifTimes ==
    /\ pc = "modif_times"
    /\ \E cutoffs \in Cutoffs :
        LET res == WriteModifTimes(ws, n_row, cutoffs)
        IN  /\ now' = [t |-> T0, cutoffs |-> cutoffs]
            /\ ws' = res.ws
            /\ tables' = Append(tables, res.table)
            /\ charts' = Append(charts, res.chart)
    /\ pc' = "save"
    /\ UNCHANGED <<df, wsList, n_row, pureVars, scanVars>>

\* wb.save(xlsx)
Save ==
    /\ pc = "save"
    /\ pc' = "saved"
    /\ UNCHANGED <<pureVars, scanVars, reportVars>>

NextReport ==
    WriteListFiles \/ SummaryHead \/ TopTenSum \/ TopTenLen \/ ModifTimes \/ Save

SpecReport == InitReport /\ [][NextReport]_vars

-----------------------------------------------------------------------------
(* C4: friendly_size                                                        *)

Units == << <<"B">>, <<"K", "B">>, <<"M", "B">>, <<"G", "B">> >>

\* n <= 1024^(k+1), stated on the digits of n
AtMostPow(limbs, k) ==
    /\ \A i \in (k + 3)..Len(limbs) : limbs[i] = 0
    /\ \/ Limb(limbs, k + 2) = 0
       \/ Limb(limbs, k + 2) = 1 /\ \A i \in 1..(k + 1) : Limb(limbs, i) = 0

\* divisions made by "divide while the value exceeds 1024, at most three times"
RefDivisions(limbs) ==
    IF AtMostPow(limbs, 0) THEN 0
    ELSE IF AtMostPow(limbs, 1) THEN 1
    ELSE IF AtMostPow(limbs, 2) THEN 2
    ELSE 3

\* the byte count n < 1024^2
IsBytes(limbs, n) ==
    /\ Limb(limbs, 1) = n % K
    /\ Limb(limbs, 2) = n \div K
    /\ \A i \in 3..Len(limbs) : limbs[i] = 0

DigitVal(c) == (CHOOSE i \in 1..10 : Digit[i] = c) - 1

RECURSIVE ParseInt(_)
ParseInt(s) ==
    IF s = <<>> THEN 0
    ELSE 10 * ParseInt(SubSeq(s, 1, Len(s) - 1)) + DigitVal(s[Len(s)])

DotAt(s) == CHOOSE i \in DOMAIN s : s[i] = "."

\* "<digits>.<d><d> <unit>"
WellFormedSize(s) ==
    /\ Cardinality({i \in DOMAIN s : s[i] = "."}) = 1
    /\ LET p == DotAt(s)
       IN  /\ p > 1
           /\ \A i \in 1..(p - 1) : s[i] \in Range(Digit)
           /\ Len(s) >= p + 4
           /\ s[p + 1] \in Range(Digit) /\ s[p + 2] \in Range(Digit)
           /\ s[p + 3] = " "
           /\ SubSeq(s, p + 4, Len(s)) \in Range(Units)

UnitPart(s) == SubSeq(s, DotAt(s) + 4, Len(s))
WholePart(s) == ParseInt(SubSeq(s, 1, DotAt(s) - 1))
CentPart(s) == ParseInt(SubSeq(s, DotAt(s) + 1, DotAt(s) + 2))

\* C4: friendly_size(n) is n divided by 1024 while the value is strictly above
\* 1024, at most three times, the unit advancing B, KB, MB, GB with each
\* division, printed with two decimals, a space and the unit; 1024 gives
\* "1024.00 B", 1536 gives "1.50 KB"; below GB the number printed is at most
\* 1024; above 1024 GB the unit stays GB.
C4_FriendlySize ==
    pc = "ret_friendly_size" =>
        LET k == RefDivisions(arg)
        IN  /\ ret = Format2f(arg, k) \o <<" ">> \o Units[k + 1]
            /\ WellFormedSize(ret)
            /\ IsBytes(arg, 1024) => ret = <<"1", "0", "2", "4", ".", "0", "0", " ", "B">>
            /\ IsBytes(arg, 1536) => ret = <<"1", ".", "5", "0", " ", "K", "B">>
            /\ IsBytes(arg, 1152) => ret = <<"1", ".", "1", "2", " ", "K", "B">>
            /\ UnitPart(ret) # <<"G", "B">> =>
                   \/ WholePart(ret) < 1024
                   \/ WholePart(ret) = 1024 /\ CentPart(ret) = 0
            /\ ~AtMostPow(arg, 3) => UnitPart(ret) = <<"G", "B">>

C4_Witness ==
    /\ pc = "ret_friendly_size"
    /\ IsBytes(arg, 1024)
    /\ ret = <<"1", "0", "2", "4", ".", "0", "0", " ", "B">>

-----------------------------------------------------------------------------
(* C5: get_file_type                                                        *)

UpperCase == <<"A", "B", "C", "D", "E", "F", "G", "H", "I", "J", "K", "L", "M", "N", "O", "P", "Q", "R", "S", "T", "U", "V", "W", "X", "Y", "Z">>
LowerCase == <<"a", "b", "c", "d", "e", "f", "g", "h", "i", "j", "k", "l", "m", "n", "o", "p", "q", "r", "s", "t", "u", "v", "w", "x", "y", "z">>

\* str.lower()
LowerChar(c) ==
    IF c \in Range(UpperCase)
    THEN LowerCase[CHOOSE i \in DOMAIN UpperCase : UpperCase[i] = c]
    ELSE c

Lower(s) == [i \in DOMAIN s |-> LowerChar(s[i])]

\* C5: a name starting with "." gives the name without its leading dots; any
\* other name gives the label the table holds for its lower-cased suffix, and
\* the suffix without its leading dot when the table holds none.
C5_TypeByLowerCasedSuffix ==
    pc = "ret_get_file_type" =>
        ret = IF StartsWithDot(arg)
              THEN LStripDots(arg)
              ELSE DictGet(types, Lower(Suffix(arg)), LStripDots(Suffix(arg)))

-----------------------------------------------------------------------------
(* SpecScan: files_2_df(root, exclude_folders) over a directory tree,      *)
(* while files may be removed from the disk by other programs.             *)

MaxFiles == 2
MaxVanish == 1

DirNames == { <<"n", "o", "d", "e", "_", "m", "o", "d", "u", "l", "e", "s">>, <<"v", "1", ".", "0">> }
FileNames == { <<"a", ".", "t", "x", "t">>, <<"M", "a", "k", "e", "f", "i", "l", "e">>, <<".", "g", "i", "t", "i", "g", "n", "o", "r", "e">> }

\* chains of nested directories below root, no name twice in a chain
DirChains ==
    { d \in UNION { [1..l -> DirNames] : l \in 0..Cardinality(DirNames) } :
        \A i, j \in DOMAIN d : d[i] = d[j] => i = j }

\* candidate files: a chain of directories, then a file name
CandidateFiles == { d \o <<n>> : d \in DirChains, n \in FileNames }

RECURSIVE SubsetsUpTo(_, _)
SubsetsUpTo(S, n) ==
    IF n = 0 THEN {{}}
    ELSE LET smaller == SubsetsUpTo(S, n - 1)
         IN  smaller \cup { t \cup {x} : t \in smaller, x \in S }

Trees == SubsetsUpTo(CandidateFiles, MaxFiles)

ExcludeLists ==
    { <<>>,
      << <<"n", "o", "d", "e", "_", "m", "o", "d", "u", "l", "e", "s">> >>,
      << <<"n", "o", "d", "e", "_", "m", "o", "d", "u", "l", "e", "s">>, <<"v", "1", ".", "0">> >> }

InitScan ==
    /\ pc = "iter"
    /\ fs \in Trees
    /\ exclude_dir \in ExcludeLists
    /\ visited = {}
    /\ f = None
    /\ records = <<>>
    /\ vanished = {}
    /\ PureOff /\ ReportOff

\* for f in root.rglob("*.*"): if f.is_file() and not any(...)
NextEntry ==
    /\ pc = "iter"
    /\ \E e \in RGlob(fs, fs \cup vanished) \ visited :
        /\ visited' = visited \cup {e}
        /\ IF e \in fs /\ ~IsExcluded(root \o e, exclude_dir)
           THEN f' = e /\ pc' = "stat_size"
           ELSE f' = None /\ pc' = "iter"
    /\ UNCHANGED <<fs, exclude_dir, records, vanished, pureVars, reportVars>>

\* size = f.stat().st_size; FileNotFoundError leaves the generator
StatSize ==
    /\ pc = "stat_size"
    /\ pc' = IF f \in fs THEN "yield" ELSE "raised"
    /\ UNCHANGED <<scanVars, pureVars, reportVars>>

\* yield {...}: the dict is built with a second f.stat() for st_mtime
YieldRecord ==
    /\ pc = "yield"
    /\ IF f \in fs
       THEN /\ records' = Append(records, FileRecord(f))
            /\ f' = None
            /\ pc' = "iter"
       ELSE /\ pc' = "raised"
            /\ UNCHANGED <<records, f>>
    /\ UNCHANGED <<fs, exclude_dir, visited, vanished, pureVars, reportVars>>

\* rglob is exhausted: pd.DataFrame(...) returns
ScanDone ==
    /\ pc = "iter"
    /\ RGlob(fs, fs \cup vanished) \ visited = {}
    /\ pc' = "done"
    /\ UNCHANGED <<scanVars, pureVars, reportVars>>

\* another program removes a file while the scan runs
Vanish ==
    /\ pc \in {"iter", "stat_size", "yield"}
    /\ Cardinality(vanished) < MaxVanish
    /\ \E e \in fs :
        /\ fs' = fs \ {e}
        /\ vanished' = vanished \cup {e}
    /\ UNCHANGED <<pc, exclude_dir, visited, f, records, pureVars, reportVars>>

NextScan == NextEntry \/ StatSize \/ YieldRecord \/ ScanDone \/ Vanish

SpecScan == InitScan /\ [][NextScan]_vars

-----------------------------------------------------------------------------
(* C1, C2, C3: the scanner                                                  *)

\* the components of a "/"-joined path
RECURSIVE SplitPath(_, _, _)
SplitPath(s, cur, acc) ==
    IF s = <<>> THEN Append(acc, cur)
    ELSE IF Head(s) = "/" THEN SplitPath(Tail(s), <<>>, Append(acc, cur))
    ELSE SplitPath(Tail(s), Append(cur, Head(s)), acc)

Components(path) == Range(SplitPath(path, <<>>, <<>>))

YieldedPaths == { records[i].Path : i \in DOMAIN records }

\* regular files of the tree with no excluded name among their path components
EligibleFiles(files) ==
    { e \in files : Range(root \o e) \cap Range(exclude_dir) = {} }

\* C1: the scan yields exactly one record for every regular file, at any
\* depth, whose path holds no excluded name, whatever the file is called
\* (names without a dot included). Stated for a scan no removal disturbed.
C1_OneRecordPerFile ==
    (pc = "done" /\ vanished = {}) =>
        /\ YieldedPaths = { AsPosix(root \o e) : e \in EligibleFiles(fs) }
        /\ Len(records) = Cardinality(EligibleFiles(fs))

\* C2: no yielded record has an excluded name among the components of its
\* path, at any depth, and every yielded record is that of a regular file,
\* never of a directory.
C2_NoExcludedNoDirectory ==
    \A i \in DOMAIN records :
        /\ Components(records[i].Path) \cap Range(exclude_dir) = {}
        /\ records[i].Path \in { AsPosix(root \o e) : e \in fs \cup vanished }
        /\ records[i].Path \notin { AsPosix(root \o d) : d \in DirsOf(fs \cup vanished) }

\* a finished scan of a tree that holds a matching file two levels below an
\* excluded directory, a directory whose name matches "*.*", and a yielded file
C2_Witness ==
    /\ pc = "done"
    /\ records # <<>>
    /\ exclude_dir # <<>>
    /\ \E e \in fs :
        /\ Len(e) = 3
        /\ e[1] \in Range(exclude_dir)
        /\ e[2] \notin Range(exclude_dir)
        /\ MatchesStarDotStar(e[3])
    /\ \E d \in DirsOf(fs) : MatchesStarDotStar(d[Len(d)])

\* C3: a file that disappears after the scanner enumerated it is skipped and
\* nothing else: when the scan ends, however it ends, every file the scanner
\* selects that is still on disk has its record.
C3_VanishedFileOnlySkipped ==
    pc \in {"done", "raised"} =>
        \A e \in fs :
            (MatchesStarDotStar(e[Len(e)]) /\ ~IsExcluded(root \o e, exclude_dir))
                => AsPosix(root \o e) \in YieldedPaths

-----------------------------------------------------------------------------
(* C6 - C10: the report                                                     *)

TypesOf(d) == {d[i].Type : i \in DOMAIN d}
RowsOfType(d, t) == {i \in DOMAIN d : d[i].Type = t}

RECURSIVE SumOver(_, _)
SumOver(d, I) ==
    IF I = {} THEN 0
    ELSE LET i == CHOOSE x \in I : TRUE IN d[i].SizeB + SumOver(d, I \ {i})

\* min, max, count and sum of the sizes of the rows of type t, from the rows
TrueStats(d, t) ==
    LET I == RowsOfType(d, t)
    IN  [ min |-> CHOOSE x \in {d[i].SizeB : i \in I} : \A i \in I : x <= d[i].SizeB,
          max |-> CHOOSE x \in {d[i].SizeB : i \in I} : \A i \in I : x >= d[i].SizeB,
          len |-> Cardinality(I),
          sum |-> SumOver(d, I) ]

HasTable(name) == \E tb \in Range(tables) : tb.name = name

\* the rows of the Summary sheet inside a table's range, below its first row
BodyRows(tb) == (tb.ref.min_row + 1)..tb.ref.max_row

RowFilled(w, r, c1, c2) == \A c \in c1..c2 : CellAt(w, r, c).t # "none"
RowEmpty(w, r, c1, c2) == \A c \in c1..c2 : CellAt(w, r, c).t = "none"

\* one Top-10 table, read from the cells inside its range
TopTableOk(name, by) ==
    LET tb == TableNamed(name)
        rows == BodyRows(tb)
        typeAt(r) == CellAt(ws, r, 2).id
        kept == {typeAt(r) : r \in rows}
        nt == Cardinality(TypesOf(df))
        stats == [t \in TypesOf(df) |-> TrueStats(df, t)]
    IN  /\ \A r \in rows : RowFilled(ws, r, 2, 6)
        /\ Cardinality(rows) = IF nt < 10 THEN nt ELSE 10
        /\ Cardinality(kept) = Cardinality(rows)
        /\ kept \subseteq TypesOf(df)
        /\ \A t \in TypesOf(df) \ kept : \A k \in kept : stats[t][by] <= stats[k][by]
        /\ \A r \in rows : r + 1 \in rows =>
               stats[typeAt(r)][by] >= stats[typeAt(r + 1)][by]
        /\ \A r \in rows :
               /\ CellAt(ws, r, 3) = Num(stats[typeAt(r)].min)
               /\ CellAt(ws, r, 4) = Num(stats[typeAt(r)].max)
               /\ CellAt(ws, r, 5) = Num(stats[typeAt(r)].len)
               /\ CellAt(ws, r, 6) = Num(stats[typeAt(r)].sum)

\* C6: for each ranking metric (sum, len) the Top-10 table holds exactly
\* min(10, T) types, without padding rows; no type left out has a larger
\* metric than a type kept; the kept types are in non-increasing order of the
\* metric; each row carries the true min, max, count and sum of its type.
C6_TopTen ==
    /\ HasTable("TopTypeSum") => TopTableOk("TopTypeSum", "sum")
    /\ HasTable("TopTypeLen") => TopTableOk("TopTypeLen", "len")

\* both tables written for more than 10 types, the two rankings differing
C6_Witness ==
    /\ pc = "saved"
    /\ Cardinality(TypesOf(df)) > 10
    /\ Len(df) > Cardinality(TypesOf(df))
    /\ CellAt(ws, TableNamed("TopTypeSum").ref.min_row + 1, 2)
         # CellAt(ws, TableNamed("TopTypeLen").ref.min_row + 1, 2)

\* the modification times held in the "Last Modif Time" column of ListFiles
HeldTimes ==
    LET col == TableColumn(TABLE_LIST_FILES, KEY_LAST_MODIF)
        Held(cell) == IsNumber(cell)
        held == SelectSeq(col, Held)
    IN  [i \in DOMAIN held |-> held[i].v]

\* the counts the formulas of the buckets 1..7 of ModifStat compute
BucketCounts ==
    LET r == TableNamed("ModifStat").ref
    IN  Tail(ColumnValues(3, r.min_row, r.max_row, <<>>))

BucketCount(k) == BucketCounts[k]

\* the times of bucket k: cutoff[k] <= m, and m < cutoff[k-1] for k > 1;
\* bucket 7 ("Above 3 years"): m < cutoff[6]
InBucket(m, k, c) ==
    IF k = 7 THEN m < c[6]
    ELSE c[k] <= m /\ (k > 1 => m < c[k - 1])

\* C7: with the cutoffs c1 > ... > c6, the ModifStat formulas put every time
\* held in the "Last Modif Time" column into exactly one bucket: bucket k
\* counts the times with c_k <= m (and m < c_(k-1) for k > 1), "Above 3
\* years" those with m < c6; a time equal to a cutoff is in that cutoff's
\* bucket; no count is negative; the counts add up to the number of times.
C7_Buckets ==
    pc = "saved" =>
        LET c == now.cutoffs
            m == HeldTimes
            count == BucketCounts
        IN  /\ \A k \in 1..5 : c[k] > c[k + 1]
            /\ \A k \in 1..7 :
                   /\ count[k] = Cardinality({i \in DOMAIN m : InBucket(m[i], k, c)})
                   /\ count[k] >= 0
            /\ \A i \in DOMAIN m : Cardinality({k \in 1..7 : InBucket(m[i], k, c)}) = 1
            /\ \A i \in DOMAIN m : \A k \in 1..6 :
                   m[i] = c[k] => InBucket(m[i], k, c)
            /\ SumSeq(count) = Len(m)

\* a report whose list holds a time equal to a cutoff, a time above 3 years
\* old and a bucket of two files or more
C7_Witness ==
    /\ pc = "saved"
    /\ \E i \in DOMAIN HeldTimes : \E k \in 2..6 : HeldTimes[i] = now.cutoffs[k]
    /\ BucketCount(7) >= 1
    /\ \E k \in 2..6 : BucketCount(k) >= 2

\* the data rows of the ListFiles table, read from the cells inside its range
ListBody ==
    LET tb == TableNamed(TABLE_LIST_FILES)
    IN  [i \in 1..(tb.ref.max_row - tb.ref.min_row) |->
            [j \in 1..Len(ListColumns) |-> CellAt(wsList, tb.ref.min_row + i, j)]]

\* C8: in the report of N >= 1 records, ListFiles lists each record exactly
\* once (N data rows), the time-bucket counts add up to N, and the per-type
\* counts (len) of all type aggregates add up to N.
C8_CountsAgree ==
    pc = "saved" =>
        /\ Len(ListBody) = Len(df)
        /\ \A i \in DOMAIN df :
               Cardinality({r \in DOMAIN ListBody : ListBody[r] = ListRow(df[i])}) = 1
        /\ SumSeq(BucketCounts) = Len(df)
        /\ SumSeq([j \in DOMAIN GroupByType(df) |-> GroupByType(df)[j].len]) = Len(df)

Headlines ==
    << "Top 10 Types by Total Size", "Top 10 Types by Nb of files",
       "Nb of files by modification time" >>

\* the rows of column A that hold headline j
HeadlineRows(j) == {x[1] : x \in {y \in DOMAIN ws.cells : y[2] = 1 /\ ws.cells[y] = Str(Headlines[j])}}

\* C9: for every number of types, at the start of each of the three sections
\* the tracked row counter is the row the worksheet appends to, so that each
\* headline text is in the row that gets the "Headline 1" style: rows 4, 19
\* and 34.
C9_HeadlineRows ==
    /\ pc \in {"top_sum", "top_len", "modif_times"} => n_row = ws.current_row + 1
    /\ \A x \in ws.styles : \E j \in DOMAIN Headlines : x[1] \in HeadlineRows(j)
    /\ pc = "saved" =>
           /\ HeadlineRows(1) = {4}
           /\ HeadlineRows(2) = {19}
           /\ HeadlineRows(3) = {34}

\* a table's range starts at its header row and ends at its last data row:
\* the header names are in its first row, every row below is filled, and no
\* table cell is written right above or right below the range
TableRangeOk(name, header) ==
    LET tb == TableNamed(name)
        r == tb.ref
    IN  /\ r.max_col - r.min_col + 1 = Len(header)
        /\ \A j \in DOMAIN header : CellAt(ws, r.min_row, r.min_col + j - 1) = Str(header[j])
        /\ r.max_row > r.min_row
        /\ \A i \in BodyRows(tb) : RowFilled(ws, i, r.min_col, r.max_col)
        /\ RowEmpty(ws, r.max_row + 1, r.min_col, r.max_col)
        /\ RowEmpty(ws, r.min_row - 1, 2, r.max_col)

ChartNamed(title) == CHOOSE ch \in Range(charts) : ch.title = title

\* a pie chart's labels are the first column of the table's data rows and its
\* data the column headed `metric`, over the same rows
ChartRefsOk(title, name, metric) ==
    LET tb == TableNamed(name)
        ch == ChartNamed(title)
    IN  /\ ch.labels = Ref(tb.ref.min_col, tb.ref.min_row + 1, tb.ref.min_col, tb.ref.max_row)
        /\ ch.data.min_col = ch.data.max_col
        /\ CellAt(ws, tb.ref.min_row, ch.data.min_col) = Str(metric)
        /\ ch.data.min_row = tb.ref.min_row + 1
        /\ ch.data.max_row = tb.ref.max_row

TopHeader == <<"Type", "min", "max", "len", "sum">>
ModifHeader == <<"Time period", "Max date", "Nb of files">>

TablesAndChartsOk ==
    /\ HasTable("TopTypeSum") =>
           /\ TableRangeOk("TopTypeSum", TopHeader)
           /\ ChartRefsOk(Headlines[1], "TopTypeSum", "sum")
    /\ HasTable("TopTypeLen") =>
           /\ TableRangeOk("TopTypeLen", TopHeader)
           /\ ChartRefsOk(Headlines[2], "TopTypeLen", "len")
    /\ HasTable("ModifStat") =>
           /\ TableRangeOk("ModifStat", ModifHeader)
           /\ ChartRefsOk("Number of files by modification time", "ModifStat", "Nb of files")

\* the formula in the count cell of bucket k of ModifStat
BucketCell(k) == CellAt(ws, TableNamed("ModifStat").ref.min_row + k, 3)
BucketRow(k) == TableNamed("ModifStat").ref.min_row + k

\* C10 as stated: ..., and each formula of ModifStat refers to the cutoff cell
\* of its own row and to the count cells of all earlier buckets only.
C10_RefsAsStated ==
    /\ TablesAndChartsOk
    /\ HasTable("ModifStat") =>
           \A k \in 1..7 :
               /\ BucketCell(k).t = "formula"
               /\ BucketCell(k).crit = <<BucketRow(k), 2>>
               /\ BucketCell(k).f = "COUNTIF>=-SUM" =>
                      /\ BucketCell(k).sum.min_col = 3 /\ BucketCell(k).sum.max_col = 3
                      /\ BucketCell(k).sum.min_row = BucketRow(1)
                      /\ BucketCell(k).sum.max_row = BucketRow(k) - 1

\* C10, amended: for every number of types the range of TopTypeSum,
\* TopTypeLen and ModifStat starts at the table's header row and ends at its
\* last data row, each pie chart's labels and data cover exactly the table's
\* data rows and the column of the ranked metric; the COUNTIF of each of the
\* six cutoff rows refers to the cutoff cell of its own row and its SUM runs
\* from the header cell of the count column (a text) to the count cell of the
\* row above, so it adds the counts of all earlier buckets and no other
\* number; the COUNTIF of "Above 3 years" refers to the cutoff cell of the
\* "3 years" row.
C10_Refs ==
    /\ TablesAndChartsOk
    /\ HasTable("ModifStat") =>
           /\ \A k \in 1..6 :
                  /\ BucketCell(k).t = "formula" /\ BucketCell(k).f = "COUNTIF>=-SUM"
                  /\ BucketCell(k).crit = <<BucketRow(k), 2>>
                  /\ CellAt(ws, BucketRow(k), 2).t = "date"
                  /\ BucketCell(k).sum = Ref(3, BucketRow(0), 3, BucketRow(k) - 1)
           /\ CellAt(ws, BucketRow(0), 3).t = "str"
           /\ BucketCell(7).t = "formula" /\ BucketCell(7).f = "COUNTIF<"
           /\ BucketCell(7).crit = <<BucketRow(6), 2>>

\* a saved report of fewer than 10 types: the tracked row counter ran ahead
\* of the rows written
C10_Witness ==
    /\ pc = "saved"
    /\ Cardinality(TypesOf(df)) < 10
    /\ Len(df) > 1

=============================================================================
